---------------------------- MODULE Spec2Model ----------------------------
(***************************************************************************)
(* Vehicle dynamics, obstacle collision response and powerup collection of *)
(* the car simulator, as a state machine.                                  *)
(*                                                                         *)
(* The C++ code computes in float.  The model computes in fixed point:     *)
(*   speeds and accelerations  1/1000 m/s, 1/1000 m/s^2                    *)
(*   times                     1/1000 s                                    *)
(*   lengths                   1/1000 m                                    *)
(*   angles                    1/1000 rad                                  *)
(*   dimensionless factors     1/1000 (friction: 1/10000)                  *)
(* Every product is rescaled by a division that truncates toward zero     *)
(* (MulDiv); std::sqrt, std::log, std::sin and std::cos are integer        *)
(* approximations (ISqrt, LnMilli, SinMilli, CosMilli).                    *)
(***************************************************************************)
EXTENDS Integers, Sequences, FiniteSets, TLC

----------------------------------------------------------------------------
(* Bounds of the model *)

\* calls explored in one run of the full interleaving
MaxCalls == 4

\* calls explored in one run of the speed, nitrous, steering and world scenarios
MaxSpeedCalls == 5

MaxNitrousCalls == 6

MaxTurnCalls == 6

MaxWorldCalls == 5

\* number of powerups of the PowerupManager
NumPowerups == 3

----------------------------------------------------------------------------
(* vehicle.cpp, anonymous namespace: tuning constants *)

MAX_SPEED == 55560
MAX_REVERSE_SPEED == 13900
TURN_SPEED == 1500
FORWARD_ACCELERATION == 8000
BACKWARD_ACCELERATION == 0 - 4000
DRIFT_FRICTION_COEFFICIENT == 9920
MIN_SPEED_THRESHOLD == 100
NITROUS_DURATION == 5000
NITROUS_ACCELERATION == 14000
NITROUS_MAX_SPEED == 69440
VEHICLE_WIDTH == 1000
VEHICLE_HEIGHT == 500
VEHICLE_LENGTH == 2000
TURN_RATE_MIN_SPEED == 300
TURN_RATE_LOW_SPEED == 3000
TURN_RATE_MEDIUM_SPEED == 15000
DRIFT_ANGLE_MULTIPLIER == 1200
DRIFT_EXIT_RETENTION == 500
DRIFT_DECAY_RATE == 950
NUM_GEARS == 5
GEAR_SHIFT_DOWN_RPM == 2500
IDLE_RPM == 1000
MAX_RPM == 7000
GEAR_SPEEDS == <<0, 12000, 22000, 35000, 48000, 70000>>
GEAR_ACCELERATION_MULTIPLIERS == <<1500, 1200, 1000, 800, 600>>
PI == 3142
TWO_PI == 2 * PI
INITIAL_ROTATION_RADIANS == PI
MAX_DRIFT_ANGLE == PI \div 3
FRICTION_LOW == 9940
FRICTION_HIGH == 9985
LOG_OFFSET == 4600

(* game_object.cpp, obstacle_manager.cpp, object_sizes.hpp *)
MIN_DISTANCE_EPSILON == 1
COLLISION_BUFFER == 50
COLLISION_VELOCITY_FACTOR == 300
WALL_HEIGHT == 2500
WALL_SEGMENT_LENGTH == 5000
WALL_LENGTH == 5000
WALL_THICKNESS == 2000
POWERUP_SIZE == 800
DEFAULT_SIZE == 1000

(* main.cpp *)
PLAY_AREA_SIZE == 200000

----------------------------------------------------------------------------
(* Fixed-point arithmetic *)

Abs(x) == IF x < 0 THEN 0 - x ELSE x

Sign(x) == IF x < 0 THEN 0 - 1 ELSE 1

Min(a, b) == IF a < b THEN a ELSE b

\* std::clamp(x, lo, hi)
Clamp(x, lo, hi) == IF x < lo THEN lo ELSE IF x > hi THEN hi ELSE x

\* a / b rounded toward zero (b > 0)
TruncDiv(a, b) == Sign(a) * (Abs(a) \div b)

\* (a * b) / c rounded toward zero (c > 0)
MulDiv(a, b, c) == TruncDiv(a * b, c)

\* std::fmod(a, b): the remainder with the sign of a (b > 0)
Fmod(a, b) == Sign(a) * (Abs(a) % b)

RECURSIVE ISqrtBetween(_, _, _)
ISqrtBetween(n, lo, hi) ==
    IF lo >= hi THEN lo
    ELSE LET mid == (lo + hi + 1) \div 2
         IN  IF mid * mid <= n THEN ISqrtBetween(n, mid, hi)
             ELSE ISqrtBetween(n, lo, mid - 1)

\* std::sqrt of a non-negative number below 2^30: the integer square root
ISqrt(n) == ISqrtBetween(n, 0, 32767)

\* 1000 * ln(r / 1000) at the breakpoints r of the table
LN_TABLE ==
    << <<10, 0 - 4605>>, <<15, 0 - 4200>>, <<20, 0 - 3912>>, <<30, 0 - 3507>>,
       <<50, 0 - 2996>>, <<75, 0 - 2590>>, <<100, 0 - 2303>>, <<150, 0 - 1897>>,
       <<200, 0 - 1609>>, <<300, 0 - 1204>>, <<500, 0 - 693>>, <<750, 0 - 288>>,
       <<1000, 0>> >>

\* std::log of a ratio r/1000 in [0.01, 1], in 1/1000: linear interpolation
\* between the breakpoints of LN_TABLE
LnMilli(r) ==
    LET i == CHOOSE k \in 1..(Len(LN_TABLE) - 1) :
                 /\ LN_TABLE[k][1] <= r
                 /\ \/ r < LN_TABLE[k + 1][1]
                    \/ k = Len(LN_TABLE) - 1
        r0 == LN_TABLE[i][1]
        r1 == LN_TABLE[i + 1][1]
        l0 == LN_TABLE[i][2]
        l1 == LN_TABLE[i + 1][2]
    IN  l0 + ((l1 - l0) * (r - r0)) \div (r1 - r0)

\* an angle in 1/1000 rad reduced to [0, 2*pi)
NormAngle(a) == LET m == Fmod(a, TWO_PI) IN IF m < 0 THEN m + TWO_PI ELSE m

\* sin of x in [0, pi] (1/1000 rad), in 1/1000: 16 x (pi - x) / (5 pi^2 - 4 x (pi - x))
SinHalfTurn(x) ==
    LET p == (x * (PI - x)) \div 1000
        piSq == (PI * PI) \div 1000
    IN  (16000 * p) \div (5 * piSq - 4 * p)

\* std::sin, in 1/1000, of an angle in 1/1000 rad
SinMilli(a) ==
    LET x == NormAngle(a)
    IN  IF x <= PI THEN SinHalfTurn(x) ELSE 0 - SinHalfTurn(x - PI)

\* std::cos, in 1/1000, of an angle in 1/1000 rad
CosMilli(a) == SinMilli(a + PI \div 2)

----------------------------------------------------------------------------
(* State *)

VARIABLES
    position,              \* GameObject::position_ of the vehicle, <<x, y, z>>
    rotation,              \* GameObject::rotation_ of the vehicle
    velocity,              \* Vehicle::velocity_
    acceleration,          \* Vehicle::acceleration_
    isDrifting,            \* Vehicle::isDrifting_
    driftAngle,            \* Vehicle::driftAngle_
    hasNitrous,            \* Vehicle::hasNitrous_
    nitrousActive,         \* Vehicle::nitrousActive_
    nitrousTimeRemaining,  \* Vehicle::nitrousTimeRemaining_
    currentGear,           \* Vehicle::currentGear_
    rpm,                   \* Vehicle::rpm_
    powerups,              \* PowerupManager::powerups_: position and active_ of each
    lastOp,                \* the call that produced this state
    responses,             \* obstacles the last ObstacleManager::handleCollisions responded to
    steps,                 \* calls made so far
    boostElapsed,          \* sum of the dt of the updates since the last activation
    boostSteady,           \* a boost was activated and only update(dt > 0) and
                           \* control calls followed it
    sinceCollect,          \* what became of the charge last collected from a
                           \* powerup: "none" collected yet, "collected" and held,
                           \* "activated", "expired" by the timer, or "reset"
    pair,                  \* two GameObjects a and b: position_ and collisionRadius_
    checks,                \* what a.checkCircleCollision(b), b.checkCircleCollision(a)
                           \* and a.intersects(b) last returned
    frameDt,               \* the deltaTime the frame loop passes to every update
    placement,             \* a RandomPositionGenerator query in progress
    views,                 \* what the vehicle renderer, the camera, the audio and
                           \* the HUD last read from the vehicle
    keys                   \* InputHandler::wPressed_, sPressed_, aPressed_, dPressed_

vehicleVars ==
    <<position, rotation, velocity, acceleration, isDrifting, driftAngle,
      hasNitrous, nitrousActive, nitrousTimeRemaining, currentGear, rpm>>

historyVars == <<boostElapsed, boostSteady, sinceCollect>>

\* the objects outside the frame loop: the pair under a collision check, the
\* frame time, the position query, the readers of the vehicle's state, the keys
besideVars == <<pair, checks, frameDt, placement, views, keys>>

vars == <<vehicleVars, powerups, lastOp, responses, steps, historyVars, besideVars>>

----------------------------------------------------------------------------
(* Vehicle: pure parts *)

\* calculateTurnRate without the standstill branch
calculateTurnRateNoStandstill(v) ==
    LET absolute_velocity == Abs(v)
    IN  IF absolute_velocity < TURN_RATE_MIN_SPEED
        THEN 50 + MulDiv(absolute_velocity - MIN_SPEED_THRESHOLD, 100, 200)
        ELSE IF absolute_velocity < TURN_RATE_LOW_SPEED
             THEN 150 + MulDiv(absolute_velocity - TURN_RATE_MIN_SPEED, 350, 2700)
        ELSE IF absolute_velocity < TURN_RATE_MEDIUM_SPEED
             THEN 500 + MulDiv(absolute_velocity - TURN_RATE_LOW_SPEED, 500, 12000)
        ELSE Clamp(1000 - MulDiv(absolute_velocity - TURN_RATE_MEDIUM_SPEED,
                                 400, MAX_SPEED - TURN_RATE_MEDIUM_SPEED),
                   600, 1000)

\* Vehicle::calculateTurnRate, in 1/1000
calculateTurnRate(v) ==
    LET absolute_velocity == Abs(v)
    IN  IF absolute_velocity < MIN_SPEED_THRESHOLD THEN 0
        ELSE IF absolute_velocity < TURN_RATE_MIN_SPEED
             THEN 50 + MulDiv(absolute_velocity - MIN_SPEED_THRESHOLD, 100, 200)
        ELSE IF absolute_velocity < TURN_RATE_LOW_SPEED
             THEN 150 + MulDiv(absolute_velocity - TURN_RATE_MIN_SPEED, 350, 2700)
        ELSE IF absolute_velocity < TURN_RATE_MEDIUM_SPEED
             THEN 500 + MulDiv(absolute_velocity - TURN_RATE_LOW_SPEED, 500, 12000)
        ELSE Clamp(1000 - MulDiv(absolute_velocity - TURN_RATE_MEDIUM_SPEED,
                                 400, MAX_SPEED - TURN_RATE_MEDIUM_SPEED),
                   600, 1000)

\* Vehicle::getGearAccelerationMultiplier, in 1/1000
getGearAccelerationMultiplier(gear) ==
    IF gear >= 1 /\ gear <= NUM_GEARS THEN GEAR_ACCELERATION_MULTIPLIERS[gear] ELSE 1000

\* updateGearShifting without the reverse branch
updateGearShiftingNoReverse(v, gear) ==
    LET absolute_velocity == Abs(v)
    IN  IF absolute_velocity < MIN_SPEED_THRESHOLD THEN 1
        ELSE IF gear < NUM_GEARS /\ absolute_velocity >= GEAR_SPEEDS[gear + 1] THEN gear + 1
        ELSE IF gear > 1 /\ absolute_velocity < GEAR_SPEEDS[gear] THEN gear - 1
        ELSE gear

\* Vehicle::updateGearShifting: the gear after the call
updateGearShifting(v, gear) ==
    LET absolute_velocity == Abs(v)
    IN  IF v < 0 THEN 0
        ELSE IF absolute_velocity < MIN_SPEED_THRESHOLD THEN 1
        ELSE IF gear < NUM_GEARS /\ absolute_velocity >= GEAR_SPEEDS[gear + 1] THEN gear + 1
        ELSE IF gear > 1 /\ absolute_velocity < GEAR_SPEEDS[gear] THEN gear - 1
        ELSE gear

\* v * c / 10000 rounded toward zero, for 0 <= c <= 10000 and any |v| < 2^30
ScaleBy10k(v, c) ==
    LET q == Abs(v) \div 10000
        r == Abs(v) % 10000
    IN  Sign(v) * (q * c + (r * c) \div 10000)

\* Vehicle::update, lines 204-220: the friction coefficient, in 1/10000
frictionCoefficient(v, drifting) ==
    LET speedRatio == IF Abs(v) >= MAX_SPEED THEN 1000
                      ELSE Clamp((Abs(v) * 1000) \div MAX_SPEED, 10, 1000)
        logValue == LnMilli(speedRatio)
        frictionRange == FRICTION_HIGH - FRICTION_LOW
        frictionMultiplier ==
            Clamp(FRICTION_LOW + MulDiv(logValue + LOG_OFFSET, frictionRange, LOG_OFFSET),
                  FRICTION_LOW, FRICTION_HIGH)
    IN  IF drifting THEN DRIFT_FRICTION_COEFFICIENT ELSE frictionMultiplier

\* Vehicle::update, lines 227-241: the RPM after the call
updateRPM(v, gear, oldRpm) ==
    LET absolute_velocity == Abs(v)
    IN  IF absolute_velocity < MIN_SPEED_THRESHOLD THEN IDLE_RPM
        ELSE IF gear > 0 /\ gear <= NUM_GEARS
             THEN LET gear_min_speed == GEAR_SPEEDS[gear]
                      gear_max_speed == GEAR_SPEEDS[gear + 1]
                      speed_ratio ==
                          Clamp(MulDiv(absolute_velocity - gear_min_speed, 1000,
                                       gear_max_speed - gear_min_speed), 0, 1000)
                  IN  GEAR_SHIFT_DOWN_RPM
                          + MulDiv(speed_ratio, MAX_RPM - GEAR_SHIFT_DOWN_RPM, 1000)
        ELSE oldRpm

----------------------------------------------------------------------------
(* GameObject: collision primitive *)

\* GameObject::updateCollisionRadius on a size <<width, height, length>>
updateCollisionRadius(size) ==
    LET halfWidth == size[1] \div 2
        halfLength == size[3] \div 2
    IN  ISqrt(halfWidth * halfWidth + halfLength * halfLength)

\* GameObject::GameObject: size_ is {1, 1, 1} when the constructor computes the
\* radius; no subclass constructor computes it again after setting its size
constructedRadius == updateCollisionRadius(<<DEFAULT_SIZE, DEFAULT_SIZE, DEFAULT_SIZE>>)

vehicleSize == <<VEHICLE_WIDTH, VEHICLE_HEIGHT, VEHICLE_LENGTH>>

\* checkCircleCollision with the normal's x taken from the magnitude of the
\* x distance
checkCircleCollisionAbsNormal(selfPos, selfRadius, otherPos, otherRadius) ==
    LET radiusSum == selfRadius + otherRadius
        distanceX == otherPos[1] - selfPos[1]
        distanceZ == otherPos[3] - selfPos[3]
        miss == [hit |-> FALSE, overlapDistance |-> 0, normalX |-> 0, normalZ |-> 0]
    IN  IF Abs(distanceX) > radiusSum \/ Abs(distanceZ) > radiusSum THEN miss
        ELSE LET distanceSquared == distanceX * distanceX + distanceZ * distanceZ
                 radiusSumSquared == radiusSum * radiusSum
                 distance == ISqrt(distanceSquared)
             IN  IF distanceSquared > radiusSumSquared THEN miss
                 ELSE IF distanceSquared <= MIN_DISTANCE_EPSILON * MIN_DISTANCE_EPSILON
                      THEN [hit |-> TRUE, overlapDistance |-> radiusSum,
                            normalX |-> 1000, normalZ |-> 0]
                 ELSE [hit |-> TRUE, overlapDistance |-> radiusSum - distance,
                       normalX |-> MulDiv(Abs(distanceX), 1000, distance),
                       normalZ |-> MulDiv(distanceZ, 1000, distance)]

\* checkCircleCollision with the y distance counted in
checkCircleCollisionWithHeight(selfPos, selfRadius, otherPos, otherRadius) ==
    LET radiusSum == selfRadius + otherRadius
        distanceX == otherPos[1] - selfPos[1]
        distanceY == otherPos[2] - selfPos[2]
        distanceZ == otherPos[3] - selfPos[3]
        miss == [hit |-> FALSE, overlapDistance |-> 0, normalX |-> 0, normalZ |-> 0]
    IN  IF Abs(distanceX) > radiusSum \/ Abs(distanceZ) > radiusSum
           \/ Abs(distanceY) > radiusSum THEN miss
        ELSE LET distanceSquared == distanceX * distanceX + distanceY * distanceY
                                    + distanceZ * distanceZ
                 radiusSumSquared == radiusSum * radiusSum
                 distance == ISqrt(distanceSquared)
             IN  IF distanceSquared > radiusSumSquared THEN miss
                 ELSE IF distanceSquared <= MIN_DISTANCE_EPSILON * MIN_DISTANCE_EPSILON
                      THEN [hit |-> TRUE, overlapDistance |-> radiusSum,
                            normalX |-> 1000, normalZ |-> 0]
                 ELSE [hit |-> TRUE, overlapDistance |-> radiusSum - distance,
                       normalX |-> MulDiv(distanceX, 1000, distance),
                       normalZ |-> MulDiv(distanceZ, 1000, distance)]

\* GameObject::checkCircleCollision of an object at selfPos with one at otherPos.
\* A centre distance above the radius sum on one axis alone already exceeds it
\* squared; that case is decided before squaring.  distance <= epsilon is
\* decided on the squares, where integers are exact.
checkCircleCollision(selfPos, selfRadius, otherPos, otherRadius) ==
    LET radiusSum == selfRadius + otherRadius
        distanceX == otherPos[1] - selfPos[1]
        distanceZ == otherPos[3] - selfPos[3]
        miss == [hit |-> FALSE, overlapDistance |-> 0, normalX |-> 0, normalZ |-> 0]
    IN  IF Abs(distanceX) > radiusSum \/ Abs(distanceZ) > radiusSum THEN miss
        ELSE LET distanceSquared == distanceX * distanceX + distanceZ * distanceZ
                 radiusSumSquared == radiusSum * radiusSum
                 distance == ISqrt(distanceSquared)
             IN  IF distanceSquared > radiusSumSquared THEN miss
                 ELSE IF distanceSquared <= MIN_DISTANCE_EPSILON * MIN_DISTANCE_EPSILON
                      THEN [hit |-> TRUE, overlapDistance |-> radiusSum,
                            normalX |-> 1000, normalZ |-> 0]
                 ELSE [hit |-> TRUE, overlapDistance |-> radiusSum - distance,
                       normalX |-> MulDiv(distanceX, 1000, distance),
                       normalZ |-> MulDiv(distanceZ, 1000, distance)]

\* GameObject::intersects
intersects(selfPos, selfRadius, otherPos, otherRadius) ==
    checkCircleCollision(selfPos, selfRadius, otherPos, otherRadius).hit

----------------------------------------------------------------------------
(* ObstacleManager *)

\* Obstacle::Obstacle for a wall: the size by orientation
\* (the height component is read by no collision code)
wallSize(orientation) ==
    IF orientation = "HORIZONTAL" THEN <<WALL_LENGTH, WALL_HEIGHT, WALL_THICKNESS>>
    ELSE <<WALL_THICKNESS, WALL_HEIGHT, WALL_LENGTH>>

Wall(x, z, orientation) ==
    [pos |-> <<x, WALL_HEIGHT, z>>, size |-> wallSize(orientation),
     radius |-> constructedRadius]

\* ObstacleManager::generateWalls: iteration i of the loop pushes the north,
\* south, west and east segment, so obstacle k is push (k - 1) % 4 of
\* iteration (k - 1) \div 4
generateWalls(playAreaSize) ==
    LET halfSize == playAreaSize \div 2
        segmentsPerSide == playAreaSize \div WALL_SEGMENT_LENGTH
        offset(i) == (0 - halfSize) + i * WALL_SEGMENT_LENGTH + WALL_SEGMENT_LENGTH \div 2
        pushed(i, side) ==
            CASE side = 0 -> Wall(offset(i), 0 - halfSize, "HORIZONTAL")
              [] side = 1 -> Wall(offset(i), halfSize, "HORIZONTAL")
              [] side = 2 -> Wall(0 - halfSize, offset(i), "VERTICAL")
              [] side = 3 -> Wall(halfSize, offset(i), "VERTICAL")
    IN  [k \in 1..(4 * segmentsPerSide) |-> pushed((k - 1) \div 4, (k - 1) % 4)]

\* ObstacleManager::obstacles_ of a manager without trees: the perimeter walls
obstacles == generateWalls(PLAY_AREA_SIZE)

\* the body of the loop of ObstacleManager::handleCollisions for one obstacle,
\* on the vehicle state st = [pos, vel, n] (n counts the responses)
respondToObstacle(st, obstacle) ==
    IF ~ intersects(st.pos, constructedRadius, obstacle.pos, obstacle.radius) THEN st
    ELSE LET dx == st.pos[1] - obstacle.pos[1]
             dz == st.pos[3] - obstacle.pos[3]
             overlapX == (vehicleSize[1] + obstacle.size[1]) \div 2 - Abs(dx)
             overlapZ == (vehicleSize[3] + obstacle.size[3]) \div 2 - Abs(dz)
         IN  IF overlapX > 0 /\ overlapZ > 0
             THEN LET pushX == IF dx > 0 THEN overlapX + COLLISION_BUFFER
                               ELSE 0 - (overlapX + COLLISION_BUFFER)
                      pushZ == IF dz > 0 THEN overlapZ + COLLISION_BUFFER
                               ELSE 0 - (overlapZ + COLLISION_BUFFER)
                      newPos == IF overlapX < overlapZ
                                THEN <<st.pos[1] + pushX, st.pos[2], st.pos[3]>>
                                ELSE <<st.pos[1], st.pos[2], st.pos[3] + pushZ>>
                  IN  [pos |-> newPos,
                       vel |-> MulDiv(st.vel, COLLISION_VELOCITY_FACTOR, 1000),
                       n |-> st.n + 1]
             ELSE st

RECURSIVE scanObstacles(_, _, _)
\* the loop of ObstacleManager::handleCollisions over obstacles lo..hi, in
\* collection order: the first half, then the second half on its result
scanObstacles(st, lo, hi) ==
    IF lo > hi THEN st
    ELSE IF lo = hi THEN respondToObstacle(st, obstacles[lo])
    ELSE LET mid == (lo + hi) \div 2
             firstHalf == scanObstacles(st, lo, mid)
         IN  IF firstHalf.n >= 0 THEN scanObstacles(firstHalf, mid + 1, hi)
             ELSE firstHalf

----------------------------------------------------------------------------
(* PowerupManager *)

\* Powerup::Powerup: a powerup at <<x, y, z>>
Powerup(pos) ==
    [pos |-> pos, size |-> <<POWERUP_SIZE, POWERUP_SIZE, POWERUP_SIZE>>,
     radius |-> constructedRadius, active |-> TRUE]

\* collectPowerup without the test for nitrous already held
collectPowerupWhileHolding(st, i, vehiclePos, boostActive) ==
    IF /\ st.ps[i].active
       /\ ~ boostActive
       /\ intersects(vehiclePos, constructedRadius, st.ps[i].pos, st.ps[i].radius)
    THEN [has |-> TRUE, ps |-> [st.ps EXCEPT ![i].active = FALSE]]
    ELSE st

\* collectPowerup without the test for a running boost
collectPowerupDuringBoost(st, i, vehiclePos, boostActive) ==
    IF /\ st.ps[i].active
       /\ ~ st.has
       /\ intersects(vehiclePos, constructedRadius, st.ps[i].pos, st.ps[i].radius)
    THEN [has |-> TRUE, ps |-> [st.ps EXCEPT ![i].active = FALSE]]
    ELSE st

\* the body of the loop of PowerupManager::handleCollisions for powerup i, on
\* st = [has, ps] (the vehicle's hasNitrous_ and the powerups)
collectPowerup(st, i, vehiclePos, boostActive) ==
    IF /\ st.ps[i].active
       /\ ~ st.has
       /\ ~ boostActive
       /\ intersects(vehiclePos, constructedRadius, st.ps[i].pos, st.ps[i].radius)
    THEN [has |-> TRUE, ps |-> [st.ps EXCEPT ![i].active = FALSE]]
    ELSE st

RECURSIVE scanPowerupsSkipFirst(_, _, _, _)
\* scanPowerups that never examines the first powerup of the collection
scanPowerupsSkipFirst(st, i, vehiclePos, boostActive) ==
    IF i > Len(st.ps) THEN st
    ELSE IF i = 1 THEN scanPowerupsSkipFirst(st, 2, vehiclePos, boostActive)
    ELSE scanPowerupsSkipFirst(collectPowerup(st, i, vehiclePos, boostActive), i + 1,
                               vehiclePos, boostActive)

RECURSIVE scanPowerups(_, _, _, _)
\* the loop of PowerupManager::handleCollisions from powerup i on
scanPowerups(st, i, vehiclePos, boostActive) ==
    IF i > Len(st.ps) THEN st
    ELSE scanPowerups(collectPowerup(st, i, vehiclePos, boostActive), i + 1,
                      vehiclePos, boostActive)

----------------------------------------------------------------------------
(* Inputs *)

\* deltaTime of an update: negative, zero, 2.5 s (half the boost), a stalled 10 s
DtSet == {0 - 100, 0, 2500, 10000}

\* amount of a turn
AmountSet == {0 - 1000, 1000}

\* argument of setVelocity
VelocitySet == {0 - 20000, 10000, 150000}

halfArea == PLAY_AREA_SIZE \div 2

\* spawn positions of the powerups, as the random generator may draw them: the
\* first two within one collision diameter of each other, the others apart
powerupSpot(i) ==
    IF i = 2 THEN <<20000 + 600, 400, 30000>>
    ELSE <<20000 * i, 400, 30000>>

\* arguments of setPosition: the first wall's position, a spot in the
\* south-east corner, a spot between the first two powerups, the last
\* powerup's position
PositionSet ==
    { obstacles[1].pos,
      <<halfArea - 1300, 0, halfArea - 400>>,
      <<20000 + 300, 0, 30000>>,
      powerupSpot(NumPowerups) }

----------------------------------------------------------------------------
(* Initial state: Vehicle(0, 0, 0), PowerupManager(NumPowerups, PLAY_AREA_SIZE) *)

\* GameObject::initialPosition_ of Vehicle(0, 0, 0)
initialPosition == <<0, 0, 0>>

\* GameObject::initialRotation_ as the Vehicle constructor sets it
initialRotation == INITIAL_ROTATION_RADIANS

\* Vehicle::Vehicle with GameObject::GameObject: the members after construction
constructed ==
    [position |-> initialPosition, rotation |-> INITIAL_ROTATION_RADIANS,
     velocity |-> 0, acceleration |-> 0, isDrifting |-> FALSE, driftAngle |-> 0,
     hasNitrous |-> FALSE, nitrousActive |-> FALSE, nitrousTimeRemaining |-> 0,
     currentGear |-> 1, rpm |-> IDLE_RPM]

\* Vehicle(0, 0, 0) is constructed and nothing has been called
InitVehicle ==
    /\ position = constructed.position
    /\ rotation = constructed.rotation
    /\ velocity = constructed.velocity
    /\ acceleration = constructed.acceleration
    /\ isDrifting = constructed.isDrifting
    /\ driftAngle = constructed.driftAngle
    /\ hasNitrous = constructed.hasNitrous
    /\ nitrousActive = constructed.nitrousActive
    /\ nitrousTimeRemaining = constructed.nitrousTimeRemaining
    /\ currentGear = constructed.currentGear
    /\ rpm = constructed.rpm
    /\ lastOp = "construct"
    /\ responses = 0
    /\ steps = 0
    /\ boostElapsed = 0
    /\ boostSteady = FALSE
    /\ sinceCollect = "none"

\* GameObject::GameObject: an object at <<x, y, z>>
GameObject(pos) == [pos |-> pos, radius |-> constructedRadius]

\* no collision check has been made
noChecks ==
    LET none == [hit |-> FALSE, overlapDistance |-> 0, normalX |-> 0, normalZ |-> 0]
    IN  [made |-> FALSE, ab |-> none, ba |-> none, intersectsAB |-> FALSE]

\* no position query is in progress
noPlacement ==
    [pc |-> "idle", query |-> "none", existingPositions |-> <<>>,
     minDistance |-> 0, minDistanceFromCenter |-> 0, maxAttempts |-> 0,
     attempts |-> 0, samples |-> 0, pos |-> <<0, 0>>, fallback |-> FALSE]

\* no reader has read the vehicle
noViews == [mesh |-> <<>>, camera |-> <<>>, engine |-> <<>>, hud |-> <<>>]

\* InputHandler::InputHandler: no key is held
noKeys == [w |-> FALSE, s |-> FALSE, a |-> FALSE, d |-> FALSE]

InitPair == pair = [a |-> GameObject(initialPosition), b |-> GameObject(initialPosition)]

InitBeside ==
    /\ InitPair
    /\ checks = noChecks
    /\ frameDt = 0
    /\ placement = noPlacement
    /\ views = noViews
    /\ keys = noKeys

InitPowerups == powerups = [i \in 1..NumPowerups |-> Powerup(powerupSpot(i))]

Init ==
    /\ InitVehicle
    /\ InitPowerups
    /\ InitBeside

----------------------------------------------------------------------------
(* Bookkeeping shared by every call: its name and the call count *)

\* the call budget of a run is not used up
Within(max) == steps < max

Called(op) ==
    /\ lastOp' = op
    /\ steps' = steps + 1
    /\ UNCHANGED besideVars

----------------------------------------------------------------------------
(* Vehicle: control calls *)

AccelerateForward ==
    /\ acceleration' =
           MulDiv(IF nitrousActive THEN NITROUS_ACCELERATION ELSE FORWARD_ACCELERATION,
                  getGearAccelerationMultiplier(currentGear), 1000)
    /\ Called("accelerateForward")
    /\ UNCHANGED <<position, rotation, velocity, isDrifting, driftAngle, hasNitrous,
                   nitrousActive, nitrousTimeRemaining, currentGear, rpm,
                   powerups, responses, historyVars>>

AccelerateBackward ==
    /\ acceleration' = BACKWARD_ACCELERATION
    /\ Called("accelerateBackward")
    /\ UNCHANGED <<position, rotation, velocity, isDrifting, driftAngle, hasNitrous,
                   nitrousActive, nitrousTimeRemaining, currentGear, rpm,
                   powerups, responses, historyVars>>

\* turnedRotation with the change multiplied by the sign of the velocity
turnedRotationSigned(rot, v, amount) ==
    LET turn_rate == calculateTurnRate(v)
        turned == rot + Sign(v) * MulDiv(MulDiv(amount, TURN_SPEED, 1000), turn_rate, 1000)
        folded == Fmod(turned, TWO_PI)
    IN  IF folded < 0 THEN folded + TWO_PI ELSE folded

\* Vehicle::turn: the rotation after the call
turnedRotation(rot, v, amount) ==
    LET turn_rate == calculateTurnRate(v)
        turned == rot + MulDiv(MulDiv(amount, TURN_SPEED, 1000), turn_rate, 1000)
        folded == Fmod(turned, TWO_PI)
    IN  IF folded < 0 THEN folded + TWO_PI ELSE folded

\* turnedDriftAngle without the clamp to the maximum drift angle
turnedDriftAngleUnclamped(angle, drifting, v, amount) ==
    LET turn_rate == calculateTurnRate(v)
    IN  IF drifting
        THEN angle + MulDiv(MulDiv(MulDiv(amount, TURN_SPEED, 1000), turn_rate, 1000),
                            DRIFT_ANGLE_MULTIPLIER, 1000)
        ELSE angle

\* Vehicle::turn: the drift angle after the call
turnedDriftAngle(angle, drifting, v, amount) ==
    LET turn_rate == calculateTurnRate(v)
    IN  IF drifting
        THEN Clamp(angle + MulDiv(MulDiv(MulDiv(amount, TURN_SPEED, 1000), turn_rate, 1000),
                                  DRIFT_ANGLE_MULTIPLIER, 1000),
                   0 - MAX_DRIFT_ANGLE, MAX_DRIFT_ANGLE)
        ELSE angle

Turn(amount) ==
    /\ rotation' = turnedRotation(rotation, velocity, amount)
    /\ driftAngle' = turnedDriftAngle(driftAngle, isDrifting, velocity, amount)
    /\ Called("turn")
    /\ UNCHANGED <<position, velocity, acceleration, isDrifting, hasNitrous,
                   nitrousActive, nitrousTimeRemaining, currentGear, rpm,
                   powerups, responses, historyVars>>

StartDrift ==
    /\ isDrifting' = TRUE
    /\ Called("startDrift")
    /\ UNCHANGED <<position, rotation, velocity, acceleration, driftAngle, hasNitrous,
                   nitrousActive, nitrousTimeRemaining, currentGear, rpm,
                   powerups, responses, historyVars>>

StopDrift ==
    /\ isDrifting' = FALSE
    /\ driftAngle' = MulDiv(driftAngle, DRIFT_EXIT_RETENTION, 1000)
    /\ Called("stopDrift")
    /\ UNCHANGED <<position, rotation, velocity, acceleration, hasNitrous,
                   nitrousActive, nitrousTimeRemaining, currentGear, rpm,
                   powerups, responses, historyVars>>

PickupNitrous ==
    /\ hasNitrous' = TRUE
    /\ Called("pickupNitrous")
    /\ UNCHANGED <<position, rotation, velocity, acceleration, isDrifting, driftAngle,
                   nitrousActive, nitrousTimeRemaining, currentGear, rpm,
                   powerups, responses, historyVars>>

\* activatedNitrous without the test for a running boost
activatedNitrousRestarts(has, active, remaining) ==
    IF has THEN <<FALSE, TRUE, NITROUS_DURATION>>
    ELSE <<has, active, remaining>>

\* Vehicle::activateNitrous: <<hasNitrous_, nitrousActive_, nitrousTimeRemaining_>>
\* after the call
activatedNitrous(has, active, remaining) ==
    IF has /\ ~ active THEN <<FALSE, TRUE, NITROUS_DURATION>>
    ELSE <<has, active, remaining>>

ActivateNitrous ==
    /\ LET after == activatedNitrous(hasNitrous, nitrousActive, nitrousTimeRemaining)
       IN  /\ hasNitrous' = after[1]
           /\ nitrousActive' = after[2]
           /\ nitrousTimeRemaining' = after[3]
    /\ IF hasNitrous /\ ~ nitrousActive
       THEN boostElapsed' = 0 /\ boostSteady' = TRUE
       ELSE UNCHANGED <<boostElapsed, boostSteady>>
    /\ sinceCollect' = IF hasNitrous /\ ~ nitrousActive /\ sinceCollect = "collected"
                       THEN "activated" ELSE sinceCollect
    /\ Called("activateNitrous")
    /\ UNCHANGED <<position, rotation, velocity, acceleration, isDrifting, driftAngle,
                   currentGear, rpm, powerups, responses>>

SetVelocity(v) ==
    /\ velocity' = v
    /\ Called("setVelocity")
    /\ UNCHANGED <<position, rotation, acceleration, isDrifting, driftAngle, hasNitrous,
                   nitrousActive, nitrousTimeRemaining, currentGear, rpm,
                   powerups, responses, historyVars>>

SetPosition(p) ==
    /\ position' = p
    /\ Called("setPosition")
    /\ UNCHANGED <<rotation, velocity, acceleration, isDrifting, driftAngle, hasNitrous,
                   nitrousActive, nitrousTimeRemaining, currentGear, rpm,
                   powerups, responses, historyVars>>

----------------------------------------------------------------------------
(* Vehicle::update *)

\* nitrousTimer that ends the boost only below zero
nitrousTimerStrict(active, remaining, deltaTime) ==
    IF active
    THEN IF remaining - deltaTime < 0 THEN <<FALSE, 0>>
         ELSE <<TRUE, remaining - deltaTime>>
    ELSE <<active, remaining>>

\* lines 188-194: <<nitrousActive_, nitrousTimeRemaining_>> after the timer step
nitrousTimer(active, remaining, deltaTime) ==
    IF active
    THEN IF remaining - deltaTime <= 0 THEN <<FALSE, 0>>
         ELSE <<TRUE, remaining - deltaTime>>
    ELSE <<active, remaining>>

\* integratedVelocity with the boost ceiling applied whether or not a boost runs
integratedVelocityBoostCeiling(v, accel, drifting, boostActive, deltaTime) ==
    LET accelerated == v + MulDiv(accel, deltaTime, 1000)
        slowed == ScaleBy10k(accelerated, frictionCoefficient(accelerated, drifting))
    IN  Clamp(slowed, 0 - MAX_REVERSE_SPEED, NITROUS_MAX_SPEED)

\* lines 200-225: velocity_ after integration, friction and clamp
integratedVelocity(v, accel, drifting, boostActive, deltaTime) ==
    LET accelerated == v + MulDiv(accel, deltaTime, 1000)
        slowed == ScaleBy10k(accelerated, frictionCoefficient(accelerated, drifting))
        current_max_speed == IF boostActive THEN NITROUS_MAX_SPEED ELSE MAX_SPEED
    IN  Clamp(slowed, 0 - MAX_REVERSE_SPEED, current_max_speed)

\* lines 244-255: position_ after the move
\* decayedDriftAngle that decays the angle only once the drift is over
decayedDriftAngleAfterExit(angle, drifting) ==
    IF drifting THEN angle ELSE MulDiv(angle, DRIFT_DECAY_RATE, 1000)

\* Vehicle::update: the drift angle after the call
decayedDriftAngle(angle, drifting) ==
    IF drifting THEN MulDiv(angle, DRIFT_DECAY_RATE, 1000) ELSE angle

movedPosition(pos, rot, drifting, angle, v, deltaTime) ==
    LET movement_angle == IF drifting THEN rot - angle ELSE rot
        travelled == MulDiv(v, deltaTime, 1000)
        delta_x == MulDiv(SinMilli(movement_angle), travelled, 1000)
        delta_z == MulDiv(CosMilli(movement_angle), travelled, 1000)
    IN  <<pos[1] + delta_x, pos[2], pos[3] + delta_z>>

\* resetAcceleration that keeps the acceleration for the next update
resetAccelerationKept(accel) == accel

\* Vehicle::update: the acceleration after the call (must be reapplied each frame)
resetAcceleration(accel) == 0

Update(deltaTime) ==
    /\ LET timer == nitrousTimer(nitrousActive, nitrousTimeRemaining, deltaTime)
           gear == updateGearShifting(velocity, currentGear)
           v == integratedVelocity(velocity, acceleration, isDrifting, timer[1], deltaTime)
       IN  /\ nitrousActive' = timer[1]
           /\ nitrousTimeRemaining' = timer[2]
           /\ currentGear' = gear
           /\ velocity' = v
           /\ rpm' = updateRPM(v, gear, rpm)
           /\ driftAngle' = decayedDriftAngle(driftAngle, isDrifting)
           /\ position' = movedPosition(position, rotation, isDrifting, driftAngle,
                                        v, deltaTime)
    /\ acceleration' = resetAcceleration(acceleration)
    /\ IF boostSteady /\ deltaTime > 0
       THEN /\ boostElapsed' = Min(boostElapsed + deltaTime, NITROUS_DURATION)
            /\ boostSteady' = TRUE
       ELSE /\ boostElapsed' = boostElapsed
            /\ boostSteady' = FALSE
    /\ sinceCollect' = IF sinceCollect = "activated" /\ nitrousActive
                          /\ ~ nitrousTimer(nitrousActive, nitrousTimeRemaining,
                                            deltaTime)[1]
                       THEN "expired" ELSE sinceCollect
    /\ Called("update")
    /\ UNCHANGED <<rotation, isDrifting, hasNitrous, powerups, responses>>

\* resetState that leaves the nitrous timer as it is
resetStateStaleTimer ==
    [position |-> initialPosition, rotation |-> initialRotation,
     velocity |-> 0, acceleration |-> 0, isDrifting |-> FALSE, driftAngle |-> 0,
     hasNitrous |-> FALSE, nitrousActive |-> FALSE,
     nitrousTimeRemaining |-> nitrousTimeRemaining,
     currentGear |-> 1, rpm |-> IDLE_RPM]

\* Vehicle::reset with GameObject::reset: the vehicle's state after the call
resetState ==
    [position |-> initialPosition, rotation |-> initialRotation,
     velocity |-> 0, acceleration |-> 0, isDrifting |-> FALSE, driftAngle |-> 0,
     hasNitrous |-> FALSE, nitrousActive |-> FALSE, nitrousTimeRemaining |-> 0,
     currentGear |-> 1, rpm |-> IDLE_RPM]

Reset ==
    /\ position' = resetState.position
    /\ rotation' = resetState.rotation
    /\ velocity' = resetState.velocity
    /\ acceleration' = resetState.acceleration
    /\ isDrifting' = resetState.isDrifting
    /\ driftAngle' = resetState.driftAngle
    /\ hasNitrous' = resetState.hasNitrous
    /\ nitrousActive' = resetState.nitrousActive
    /\ nitrousTimeRemaining' = resetState.nitrousTimeRemaining
    /\ currentGear' = resetState.currentGear
    /\ rpm' = resetState.rpm
    /\ boostElapsed' = 0
    /\ boostSteady' = FALSE
    /\ sinceCollect' = IF sinceCollect = "none" THEN "none" ELSE "reset"
    /\ Called("reset")
    /\ UNCHANGED <<powerups, responses>>

----------------------------------------------------------------------------
(* Managers *)

\* ObstacleManager::handleCollisions
ObstacleHandleCollisions ==
    /\ LET after == scanObstacles([pos |-> position, vel |-> velocity, n |-> 0], 1, Len(obstacles))
       IN  /\ position' = after.pos
           /\ velocity' = after.vel
           /\ responses' = after.n
    /\ Called("obstacleHandleCollisions")
    /\ UNCHANGED <<rotation, acceleration, isDrifting, driftAngle, hasNitrous,
                   nitrousActive, nitrousTimeRemaining, currentGear, rpm,
                   powerups, historyVars>>

\* PowerupUpdate that respawns the collected powerups
PowerupUpdateRespawns ==
    /\ powerups' = [i \in 1..Len(powerups) |-> [powerups[i] EXCEPT !.active = TRUE]]
    /\ Called("powerupUpdate")
    /\ UNCHANGED <<vehicleVars, responses, historyVars>>

\* PowerupManager::update: powerups are static, the body is empty
PowerupUpdate ==
    /\ powerups' = powerups
    /\ Called("powerupUpdate")
    /\ UNCHANGED <<vehicleVars, responses, historyVars>>

\* PowerupManager::handleCollisions
PowerupHandleCollisions ==
    /\ LET after == scanPowerups([has |-> hasNitrous, ps |-> powerups], 1,
                                 position, nitrousActive)
       IN  /\ hasNitrous' = after.has
           /\ powerups' = after.ps
           /\ sinceCollect' = IF after.ps # powerups THEN "collected" ELSE sinceCollect
    /\ Called("powerupHandleCollisions")
    /\ UNCHANGED <<position, rotation, velocity, acceleration, isDrifting, driftAngle,
                   nitrousActive, nitrousTimeRemaining, currentGear, rpm,
                   responses, boostElapsed, boostSteady>>

\* PowerupManager::reset
PowerupReset ==
    /\ powerups' = [i \in 1..Len(powerups) |-> [powerups[i] EXCEPT !.active = TRUE]]
    /\ Called("powerupReset")
    /\ UNCHANGED <<vehicleVars, responses, historyVars>>

----------------------------------------------------------------------------
(* Specification: any interleaving of the public calls *)

Next ==
    \/ Within(MaxCalls) /\ AccelerateForward
    \/ Within(MaxCalls) /\ AccelerateBackward
    \/ \E amount \in AmountSet : Within(MaxCalls) /\ Turn(amount)
    \/ Within(MaxCalls) /\ StartDrift
    \/ Within(MaxCalls) /\ StopDrift
    \/ Within(MaxCalls) /\ PickupNitrous
    \/ Within(MaxCalls) /\ ActivateNitrous
    \/ \E v \in VelocitySet : Within(MaxCalls) /\ SetVelocity(v)
    \/ \E p \in PositionSet : Within(MaxCalls) /\ SetPosition(p)
    \/ \E deltaTime \in DtSet : Within(MaxCalls) /\ Update(deltaTime)
    \/ Within(MaxCalls) /\ Reset
    \/ Within(MaxCalls) /\ ObstacleHandleCollisions
    \/ Within(MaxCalls) /\ PowerupUpdate
    \/ Within(MaxCalls) /\ PowerupHandleCollisions
    \/ Within(MaxCalls) /\ PowerupReset

Spec == Init /\ [][Next]_vars

(* Speed scenarios: the calls that act on velocity, gear and RPM *)

NextSpeed ==
    \/ Within(MaxSpeedCalls) /\ AccelerateForward
    \/ Within(MaxSpeedCalls) /\ AccelerateBackward
    \/ \E amount \in AmountSet : Within(MaxSpeedCalls) /\ Turn(amount)
    \/ Within(MaxSpeedCalls) /\ StartDrift
    \/ Within(MaxSpeedCalls) /\ StopDrift
    \/ Within(MaxSpeedCalls) /\ PickupNitrous
    \/ Within(MaxSpeedCalls) /\ ActivateNitrous
    \/ \E v \in VelocitySet : Within(MaxSpeedCalls) /\ SetVelocity(v)
    \/ \E deltaTime \in DtSet : Within(MaxSpeedCalls) /\ Update(deltaTime)

SpecSpeed == Init /\ [][NextSpeed]_vars

(* Nitrous scenarios: pickup, activation and the timer *)

NextNitrous ==
    \/ Within(MaxNitrousCalls) /\ AccelerateForward
    \/ Within(MaxNitrousCalls) /\ PickupNitrous
    \/ Within(MaxNitrousCalls) /\ ActivateNitrous
    \/ \E deltaTime \in DtSet : Within(MaxNitrousCalls) /\ Update(deltaTime)
    \/ Within(MaxNitrousCalls) /\ Reset

SpecNitrous == Init /\ [][NextNitrous]_vars

(* Steering scenarios: turning and drifting at the speeds set *)

TurnVelocitySet == {0 - 50, 10000}

NextTurn ==
    \/ \E amount \in AmountSet : Within(MaxTurnCalls) /\ Turn(amount)
    \/ Within(MaxTurnCalls) /\ StartDrift
    \/ Within(MaxTurnCalls) /\ StopDrift
    \/ \E v \in TurnVelocitySet : Within(MaxTurnCalls) /\ SetVelocity(v)
    \/ \E deltaTime \in {2500} : Within(MaxTurnCalls) /\ Update(deltaTime)
    \/ Within(MaxTurnCalls) /\ Reset

SpecTurn == Init /\ [][NextTurn]_vars

(* World scenarios: the vehicle placed among the walls and the powerups *)

NextWorld ==
    \/ \E p \in PositionSet : Within(MaxWorldCalls) /\ SetPosition(p)
    \/ \E v \in {10000} : Within(MaxWorldCalls) /\ SetVelocity(v)
    \/ Within(MaxWorldCalls) /\ PickupNitrous
    \/ Within(MaxWorldCalls) /\ ActivateNitrous
    \/ \E deltaTime \in {0, 10000} : Within(MaxWorldCalls) /\ Update(deltaTime)
    \/ Within(MaxWorldCalls) /\ Reset
    \/ Within(MaxWorldCalls) /\ ObstacleHandleCollisions
    \/ Within(MaxWorldCalls) /\ PowerupUpdate
    \/ Within(MaxWorldCalls) /\ PowerupHandleCollisions
    \/ Within(MaxWorldCalls) /\ PowerupReset

SpecWorld == Init /\ [][NextWorld]_vars

(* Collision scenarios: two objects placed and checked against each other *)

MaxCollisionCalls == 3

\* positions of the two objects: the same spot, a spot within the epsilon, spots
\* that overlap, touch and miss, at ground level and at powerup height
PairPositionSet ==
    {<<x, y, z>> : x \in {0 - 1000, 0, 1, 1000, 1414, 1415}, y \in {0, 400},
                   z \in {0 - 999, 0, 1000}}

InitCollision ==
    /\ InitVehicle
    /\ InitPowerups
    /\ pair \in {[a |-> GameObject(p), b |-> GameObject(q)] :
                    p \in {initialPosition, <<1000, 400, 1000>>}, q \in PairPositionSet}
    /\ checks = noChecks
    /\ frameDt = 0
    /\ placement = noPlacement
    /\ views = noViews
    /\ keys = noKeys

\* GameObject::setPosition on one of the two objects
PairSetPosition(which, p) ==
    /\ pair' = [pair EXCEPT ![which].pos = p]
    /\ lastOp' = "pairSetPosition"
    /\ steps' = steps + 1
    /\ UNCHANGED <<vehicleVars, powerups, responses, historyVars, checks, frameDt,
                   placement, views, keys>>

\* a.checkCircleCollision(b, ...), b.checkCircleCollision(a, ...), a.intersects(b)
CheckPair ==
    /\ checks' = [made |-> TRUE,
                  ab |-> checkCircleCollision(pair.a.pos, pair.a.radius,
                                              pair.b.pos, pair.b.radius),
                  ba |-> checkCircleCollision(pair.b.pos, pair.b.radius,
                                              pair.a.pos, pair.a.radius),
                  intersectsAB |-> intersects(pair.a.pos, pair.a.radius,
                                              pair.b.pos, pair.b.radius)]
    /\ lastOp' = "checkCircleCollision"
    /\ steps' = steps + 1
    /\ UNCHANGED <<vehicleVars, powerups, responses, historyVars, pair, frameDt,
                   placement, views, keys>>

NextCollision ==
    \/ \E which \in {"a", "b"}, p \in PairPositionSet :
           Within(MaxCollisionCalls) /\ PairSetPosition(which, p)
    \/ Within(MaxCollisionCalls) /\ CheckPair

SpecCollision == InitCollision /\ [][NextCollision]_vars

(* Cruise scenarios: the frame loop with the throttle held, at a fixed frame *)
(* time: accelerateForward(); update(dt) repeated from rest, without or with *)
(* a boost started first                                                     *)

MaxCruiseCalls == 2000

\* frame times: 1000, 60 and 10 frames a second
FrameDtSet == {1, 16, 100}

InitCruise ==
    /\ InitVehicle
    /\ InitPowerups
    /\ InitPair
    /\ checks = noChecks
    /\ frameDt \in FrameDtSet
    /\ placement = noPlacement
    /\ views = noViews
    /\ keys = noKeys

NextCruise ==
    \/ Within(MaxCruiseCalls) /\ lastOp = "construct" /\ PickupNitrous
    \/ Within(MaxCruiseCalls) /\ lastOp = "pickupNitrous" /\ ActivateNitrous
    \/ Within(MaxCruiseCalls) /\ lastOp \in {"construct", "activateNitrous", "update"}
           /\ AccelerateForward
    \/ Within(MaxCruiseCalls) /\ lastOp = "accelerateForward" /\ Update(frameDt)

SpecCruise == InitCruise /\ [][NextCruise]_vars

(* Placement scenarios: RandomPositionGenerator queries, one sample a step *)

\* attempt budgets passed as maxAttempts
MaxAttemptsBudget == 3

\* what the random engine may return for a position <<x, z>>
SampleSet == {<<0, 0>>, <<1000, 0>>, <<3000, 0>>, <<3000, 4000>>, <<0 - 6000, 0>>}

\* positions already placed
ExistingSet == {<<>>, << <<3000, 4000>> >>, << <<3000, 4000>>, <<0 - 6000, 0>> >>}

\* minimum distances asked for
MinDistanceSet == {2000, 20000}

\* RandomPositionGenerator::isPositionValid; distance < minDistance is decided on
\* the squares
isPositionValid(pos, existingPositions, minDistance) ==
    \A i \in 1..Len(existingPositions) :
        LET dx == pos[1] - existingPositions[i][1]
            dz == pos[2] - existingPositions[i][2]
        IN  ~ (dx * dx + dz * dz < minDistance * minDistance)

\* the loop condition with the budget itself counted as an attempt left
budgetLeftInclusive(attempts, maxAttempts) == attempts <= maxAttempts

\* while (attempts < maxAttempts)
budgetLeft(attempts, maxAttempts) == attempts < maxAttempts

\* the body of either loop on one sample: TRUE when the sample is returned
accepted(q, pos) ==
    IF q.query = "constraints"
          /\ pos[1] * pos[1] + pos[2] * pos[2]
                 < q.minDistanceFromCenter * q.minDistanceFromCenter
    THEN FALSE
    ELSE isPositionValid(pos, q.existingPositions, q.minDistance)

\* getRandomPositionWithMinDistance(existingPositions, minDistance, maxAttempts) is
\* entered
StartMinDistance(existingPositions, minDistance, maxAttempts) ==
    /\ placement.pc \in {"idle", "done"}
    /\ placement' = [pc |-> "loop", query |-> "minDistance",
                     existingPositions |-> existingPositions,
                     minDistance |-> minDistance, minDistanceFromCenter |-> 0,
                     maxAttempts |-> maxAttempts, attempts |-> 0, samples |-> 0,
                     pos |-> <<0, 0>>, fallback |-> FALSE]
    /\ lastOp' = "getRandomPositionWithMinDistance"
    /\ UNCHANGED <<vehicleVars, powerups, responses, steps, historyVars, pair,
                   checks, frameDt, views, keys>>

\* getRandomPositionWithConstraints(existingPositions, minDistanceFromCenter,
\* minDistanceFromOthers, maxAttempts) is entered
StartConstraints(existingPositions, minDistanceFromCenter, minDistanceFromOthers, maxAttempts) ==
    /\ placement.pc \in {"idle", "done"}
    /\ placement' = [pc |-> "loop", query |-> "constraints",
                     existingPositions |-> existingPositions,
                     minDistance |-> minDistanceFromOthers,
                     minDistanceFromCenter |-> minDistanceFromCenter,
                     maxAttempts |-> maxAttempts, attempts |-> 0, samples |-> 0,
                     pos |-> <<0, 0>>, fallback |-> FALSE]
    /\ lastOp' = "getRandomPositionWithConstraints"
    /\ UNCHANGED <<vehicleVars, powerups, responses, steps, historyVars, pair,
                   checks, frameDt, views, keys>>

\* one pass of the while loop: the attempt is counted, a sample is drawn and
\* returned if it passes
Attempt(sample) ==
    /\ placement.pc = "loop"
    /\ budgetLeft(placement.attempts, placement.maxAttempts)
    /\ placement' = [placement EXCEPT
                         !.attempts = @ + 1,
                         !.samples = @ + 1,
                         !.pos = sample,
                         !.pc = IF accepted(placement, sample) THEN "done" ELSE "loop"]
    /\ UNCHANGED <<vehicleVars, powerups, lastOp, responses, steps, historyVars,
                   pair, checks, frameDt, views, keys>>

\* the loop is left with the budget used up: return getRandomPosition()
Fallback(sample) ==
    /\ placement.pc = "loop"
    /\ ~ budgetLeft(placement.attempts, placement.maxAttempts)
    /\ placement' = [placement EXCEPT
                         !.samples = @ + 1,
                         !.pos = sample,
                         !.fallback = TRUE,
                         !.pc = "done"]
    /\ UNCHANGED <<vehicleVars, powerups, lastOp, responses, steps, historyVars,
                   pair, checks, frameDt, views, keys>>

\* a query that was entered runs on
Draw == \E sample \in SampleSet : Attempt(sample) \/ Fallback(sample)

NextPlacement ==
    \/ \E existingPositions \in ExistingSet, minDistance \in MinDistanceSet,
          maxAttempts \in 0..MaxAttemptsBudget :
           StartMinDistance(existingPositions, minDistance, maxAttempts)
    \/ \E existingPositions \in ExistingSet, minDistanceFromCenter \in MinDistanceSet,
          minDistanceFromOthers \in MinDistanceSet, maxAttempts \in 0..MaxAttemptsBudget :
           StartConstraints(existingPositions, minDistanceFromCenter,
                            minDistanceFromOthers, maxAttempts)
    \/ \E sample \in SampleSet : Attempt(sample)
    \/ \E sample \in SampleSet : Fallback(sample)

SpecPlacement == Init /\ [][NextPlacement]_vars /\ WF_vars(Draw)

(* Frame scenarios: the frame loop's calls on the vehicle, by a wall *)

MaxFrameCalls == 5

\* arguments of setVelocity: walking pace forward, a creep in reverse
FrameVelocitySet == {300, 0 - 50}

NextFrame ==
    \/ Within(MaxFrameCalls) /\ AccelerateForward
    \/ Within(MaxFrameCalls) /\ AccelerateBackward
    \/ \E p \in {obstacles[1].pos} : Within(MaxFrameCalls) /\ SetPosition(p)
    \/ \E v \in FrameVelocitySet : Within(MaxFrameCalls) /\ SetVelocity(v)
    \/ \E deltaTime \in {0, 16} : Within(MaxFrameCalls) /\ Update(deltaTime)
    \/ Within(MaxFrameCalls) /\ ObstacleHandleCollisions
    \/ Within(MaxFrameCalls) /\ Reset

SpecFrame == Init /\ [][NextFrame]_vars

(* Shuffle scenarios: the powerups generated in any order of their spots *)

MaxShuffleCalls == 4

\* the orders in which generatePowerups may have pushed the spots
Orders == {o \in [1..NumPowerups -> 1..NumPowerups] :
              \A i, j \in 1..NumPowerups : o[i] = o[j] => i = j}

InitShuffle ==
    /\ InitVehicle
    /\ powerups \in {[i \in 1..NumPowerups |-> Powerup(powerupSpot(o[i]))] : o \in Orders}
    /\ InitBeside

NextShuffle ==
    \/ \E p \in PositionSet : Within(MaxShuffleCalls) /\ SetPosition(p)
    \/ Within(MaxShuffleCalls) /\ ActivateNitrous
    \/ \E deltaTime \in {10000} : Within(MaxShuffleCalls) /\ Update(deltaTime)
    \/ Within(MaxShuffleCalls) /\ PowerupHandleCollisions
    \/ Within(MaxShuffleCalls) /\ PowerupReset

SpecShuffle == InitShuffle /\ [][NextShuffle]_vars

(* Loop scenarios: the frame callback of main.cpp one call at a time, with the *)
(* key handlers running between frames                                       *)

MaxLoopCalls == 20

\* InputHandler's wPressed_, sPressed_, aPressed_ and dPressed_ when a frame
\* begins: whatever the key events since the last frame left
KeySet ==
    { [w |-> FALSE, s |-> FALSE, a |-> FALSE, d |-> FALSE],
      [w |-> TRUE, s |-> FALSE, a |-> TRUE, d |-> FALSE],
      [w |-> FALSE, s |-> TRUE, a |-> FALSE, d |-> TRUE] }

\* clock.getDelta() of the frames of a run: 60 frames a second, or stalled
LoopDtSet == {16, 10000}

\* where the vehicle is put before the loop starts, facing -z (north): the spawn
\* point, the first powerup's spot, in front of the middle of the first north
\* wall segment, in front of the joint between the first two north wall segments
LoopPositionSet ==
    { initialPosition,
      <<powerupSpot(1)[1], 0, powerupSpot(1)[3]>>,
      <<obstacles[1].pos[1], 0, obstacles[1].pos[3] + 2000>>,
      <<obstacles[1].pos[1] + WALL_SEGMENT_LENGTH \div 2, 0, obstacles[1].pos[3] + 1100>> }

\* the speed it has then: at rest, reversing, near top speed
LoopVelocitySet == {0, 0 - 5000, 50000}

\* Vehicle(0, 0, 0) and the managers are constructed; the frames of the run
\* take frameDt each
InitLoop ==
    /\ InitVehicle
    /\ InitPowerups
    /\ InitPair
    /\ checks = noChecks
    /\ placement = noPlacement
    /\ views = noViews
    /\ keys = noKeys
    /\ frameDt \in LoopDtSet

\* InputHandler::update, lines 136-137
turnDirection(v) == IF v >= 0 THEN 1 ELSE 0 - 1

\* InputHandler::update(deltaTime), the key events since the last frame having
\* left the keys in held
InputUpdate(held, deltaTime) ==
    /\ keys' = held
    /\ LET left == deltaTime * turnDirection(velocity)
           right == 0 - deltaTime * turnDirection(velocity)
           rotationA == IF held.a THEN turnedRotation(rotation, velocity, left)
                        ELSE rotation
           driftAngleA == IF held.a
                          THEN turnedDriftAngle(driftAngle, isDrifting, velocity, left)
                          ELSE driftAngle
       IN  /\ rotation' = IF held.d THEN turnedRotation(rotationA, velocity, right)
                          ELSE rotationA
           /\ driftAngle' = IF held.d
                            THEN turnedDriftAngle(driftAngleA, isDrifting, velocity, right)
                            ELSE driftAngleA
    /\ acceleration' =
           IF held.w
           THEN MulDiv(IF nitrousActive THEN NITROUS_ACCELERATION
                       ELSE FORWARD_ACCELERATION,
                       getGearAccelerationMultiplier(currentGear), 1000)
           ELSE IF held.s THEN BACKWARD_ACCELERATION
           ELSE acceleration
    /\ lastOp' = "inputUpdate"
    /\ steps' = steps + 1
    /\ UNCHANGED <<pair, checks, frameDt, placement, views>>
    /\ UNCHANGED <<position, velocity, isDrifting, hasNitrous, nitrousActive,
                   nitrousTimeRemaining, currentGear, rpm, powerups, responses,
                   historyVars>>

\* a reader of the vehicle's state ran: the call is counted, the vehicle and the
\* world are as they were
Read(op) ==
    /\ lastOp' = op
    /\ steps' = steps + 1
    /\ UNCHANGED <<vehicleVars, powerups, responses, historyVars, pair, checks,
                   frameDt, placement, keys>>

\* VehicleRenderer::update: the mesh takes the vehicle's position and rotation
VehicleRendererUpdate ==
    /\ views' = [views EXCEPT !.mesh = <<position, rotation>>]
    /\ Read("vehicleRendererUpdate")

\* main.cpp, lines 129-138: the follow camera, the minimap camera and the FOV
CameraUpdate ==
    /\ views' = [views EXCEPT
                     !.camera = <<position, rotation, nitrousActive, velocity, driftAngle>>]
    /\ Read("cameraUpdate")

\* AudioManager::update: pitch and volume from |velocity|
AudioUpdate ==
    /\ views' = [views EXCEPT !.engine = <<Abs(velocity)>>]
    /\ Read("audioUpdate")

\* UIManager::render: speed, gear, RPM and the nitrous indicator
UiRender ==
    /\ views' = [views EXCEPT
                     !.hud = <<velocity, currentGear, rpm, hasNitrous, nitrousActive,
                               nitrousTimeRemaining>>]
    /\ Read("uiRender")

\* InputHandler::onKeyPressed, Key::R: vehicle_.reset(), then the reset callback,
\* which main.cpp sets to powerupManager.reset()
KeyReset ==
    /\ position' = resetState.position
    /\ rotation' = resetState.rotation
    /\ velocity' = resetState.velocity
    /\ acceleration' = resetState.acceleration
    /\ isDrifting' = resetState.isDrifting
    /\ driftAngle' = resetState.driftAngle
    /\ hasNitrous' = resetState.hasNitrous
    /\ nitrousActive' = resetState.nitrousActive
    /\ nitrousTimeRemaining' = resetState.nitrousTimeRemaining
    /\ currentGear' = resetState.currentGear
    /\ rpm' = resetState.rpm
    /\ boostElapsed' = 0
    /\ boostSteady' = FALSE
    /\ sinceCollect' = IF sinceCollect = "none" THEN "none" ELSE "reset"
    /\ powerups' = [i \in 1..Len(powerups) |-> [powerups[i] EXCEPT !.active = TRUE]]
    /\ Called("keyReset")
    /\ UNCHANGED responses

\* the frame callback is not running: the loop has not started, the vehicle was
\* just placed, a frame has ended or a key handler has run since
BetweenFrames ==
    lastOp \in {"construct", "setPosition", "setVelocity", "uiRender", "startDrift",
                "stopDrift", "activateNitrous", "keyReset"}

\* the vehicle is placed and set moving once, before the first frame; then the
\* calls of the frame callback follow one another in the order of main.cpp,
\* lines 108-166, and the key handlers run between two frames
NextLoop ==
    \/ \E p \in LoopPositionSet :
           Within(MaxLoopCalls) /\ lastOp = "construct" /\ SetPosition(p)
    \/ \E v \in LoopVelocitySet :
           Within(MaxLoopCalls) /\ lastOp \in {"construct", "setPosition"} /\ SetVelocity(v)
    \/ Within(MaxLoopCalls) /\ BetweenFrames /\ StartDrift
    \/ Within(MaxLoopCalls) /\ BetweenFrames /\ StopDrift
    \/ Within(MaxLoopCalls) /\ BetweenFrames /\ ActivateNitrous
    \/ Within(MaxLoopCalls) /\ BetweenFrames /\ KeyReset
    \/ \E held \in KeySet :
           Within(MaxLoopCalls) /\ BetweenFrames /\ InputUpdate(held, frameDt)
    \/ Within(MaxLoopCalls) /\ lastOp = "inputUpdate" /\ Update(frameDt)
    \/ Within(MaxLoopCalls) /\ lastOp = "update" /\ VehicleRendererUpdate
    \/ Within(MaxLoopCalls) /\ lastOp = "vehicleRendererUpdate" /\ ObstacleHandleCollisions
    \/ Within(MaxLoopCalls) /\ lastOp = "obstacleHandleCollisions" /\ PowerupUpdate
    \/ Within(MaxLoopCalls) /\ lastOp = "powerupUpdate" /\ PowerupHandleCollisions
    \/ Within(MaxLoopCalls) /\ lastOp = "powerupHandleCollisions" /\ CameraUpdate
    \/ Within(MaxLoopCalls) /\ lastOp = "cameraUpdate" /\ AudioUpdate
    \/ Within(MaxLoopCalls) /\ lastOp = "audioUpdate" /\ UiRender

SpecLoop == InitLoop /\ [][NextLoop]_vars

(* Grant scenarios: nitrous comes from powerups only; the vehicle is placed, *)
(* and the managers and the vehicle are called in any order                 *)

MaxGrantCalls == 5

NextGrant ==
    \/ \E p \in PositionSet : Within(MaxGrantCalls) /\ SetPosition(p)
    \/ Within(MaxGrantCalls) /\ ActivateNitrous
    \/ \E deltaTime \in DtSet : Within(MaxGrantCalls) /\ Update(deltaTime)
    \/ Within(MaxGrantCalls) /\ Reset
    \/ Within(MaxGrantCalls) /\ PowerupHandleCollisions
    \/ Within(MaxGrantCalls) /\ PowerupReset

SpecGrant == Init /\ [][NextGrant]_vars

----------------------------------------------------------------------------
(* Claims *)

\* C1: after every update(dt), whatever dt and whatever calls came before, the
\* velocity lies in [-maxReverseSpeed, M], with M the nitrous ceiling if the
\* boost is active at the end of that update and maxSpeed otherwise; so
\* |velocity| never exceeds twice maxSpeed.
C1_VelocityClamped ==
    lastOp = "update" =>
        /\ velocity >= 0 - MAX_REVERSE_SPEED
        /\ velocity <= (IF nitrousActive THEN NITROUS_MAX_SPEED ELSE MAX_SPEED)
        /\ Abs(velocity) <= 2 * MAX_SPEED

\* the update in which the boost ran out has clamped a velocity above the
\* nitrous ceiling down to maxSpeed
C1_Witness ==
    /\ lastOp = "update"
    /\ boostSteady
    /\ boostElapsed >= NITROUS_DURATION
    /\ ~ nitrousActive
    /\ velocity = MAX_SPEED

\* C2: activateNitrous() with nitrous held and no boost running consumes the
\* nitrous, starts the boost and sets the remaining time to the full duration
\* (> 0); in every other state it changes none of the three.
C2_ActivateNitrousFrame ==
    [][lastOp' = "activateNitrous" =>
          IF hasNitrous /\ ~ nitrousActive
          THEN /\ hasNitrous' = FALSE
               /\ nitrousActive' = TRUE
               /\ nitrousTimeRemaining' = NITROUS_DURATION
               /\ nitrousTimeRemaining' > 0
          ELSE /\ hasNitrous' = hasNitrous
               /\ nitrousActive' = nitrousActive
               /\ nitrousTimeRemaining' = nitrousTimeRemaining]_vars

\* activateNitrous() was called with a second nitrous held while the boost was
\* running, and the timer kept running down
C2_Witness ==
    /\ lastOp = "activateNitrous"
    /\ hasNitrous
    /\ nitrousActive
    /\ nitrousTimeRemaining > 0
    /\ nitrousTimeRemaining < NITROUS_DURATION

\* C3: after an activation followed only by update(dt > 0) and control calls,
\* the boost is inactive with remaining time exactly 0 as soon as the dt sum
\* reaches the duration; before that it is active and the remaining time is the
\* duration less the dt sum, so it falls with every update.
C3_NitrousTimer ==
    boostSteady =>
        IF boostElapsed >= NITROUS_DURATION
        THEN ~ nitrousActive /\ nitrousTimeRemaining = 0
        ELSE nitrousActive /\ nitrousTimeRemaining = NITROUS_DURATION - boostElapsed

\* the boost has just run out in an update
C3_Witness ==
    /\ lastOp = "update"
    /\ boostSteady
    /\ boostElapsed >= NITROUS_DURATION
    /\ ~ nitrousActive
    /\ nitrousTimeRemaining = 0

\* the four conditions of a pickup, on the state before the call
Eligible(i) ==
    /\ powerups[i].active
    /\ ~ hasNitrous
    /\ ~ nitrousActive
    /\ intersects(position, constructedRadius, powerups[i].pos, powerups[i].radius)

\* C4: PowerupManager.handleCollisions deactivates a powerup and grants nitrous
\* only for a powerup that is active and intersected while the vehicle holds no
\* nitrous and runs no boost at the moment it is examined, that is for the first
\* such powerup of the collection; every other powerup keeps its flag, and with
\* no such powerup the vehicle's nitrous state is unchanged.
C4_PickupOnlyWhenEligible ==
    [][lastOp' = "powerupHandleCollisions" =>
          LET collected == {i \in 1..Len(powerups) :
                               powerups'[i].active # powerups[i].active}
              eligible == {i \in 1..Len(powerups) : Eligible(i)}
          IN  /\ Len(powerups') = Len(powerups)
              /\ \A i \in collected :
                     /\ i \in eligible
                     /\ \A j \in eligible : i <= j
                     /\ ~ powerups'[i].active
              /\ (eligible # {}) => (collected # {})
              /\ hasNitrous' = (hasNitrous \/ collected # {})
              /\ nitrousActive' = nitrousActive
              /\ nitrousTimeRemaining' = nitrousTimeRemaining]_vars

\* the vehicle stood on two active powerups: the first was collected, the
\* second, examined with nitrous already held, stayed active
C4_Witness ==
    /\ lastOp = "powerupHandleCollisions"
    /\ hasNitrous
    /\ ~ powerups[1].active
    /\ powerups[2].active
    /\ intersects(position, constructedRadius, powerups[2].pos, powerups[2].radius)

\* C5: an inactive powerup stays inactive through every call but
\* PowerupManager.reset; reset makes every powerup active and keeps their number.
C5_CollectedUntilReset ==
    [][/\ Len(powerups') = Len(powerups)
       /\ lastOp' # "powerupReset" =>
              \A i \in 1..Len(powerups) : ~ powerups[i].active => ~ powerups'[i].active
       /\ lastOp' = "powerupReset" =>
              \A i \in 1..Len(powerups) : powerups'[i].active]_vars

\* a powerup was collected, stayed inactive through a powerup update, and the
\* vehicle still holds its nitrous
C5_Witness ==
    /\ lastOp = "powerupUpdate"
    /\ hasNitrous
    /\ \E i \in 1..Len(powerups) : ~ powerups[i].active

\* C6: whenever the vehicle's circle overlaps an obstacle when
\* ObstacleManager.handleCollisions is called, the velocity is exactly 0 when
\* the call returns.
C6_StopsOnOverlap ==
    [][(/\ lastOp' = "obstacleHandleCollisions"
        /\ \E k \in 1..Len(obstacles) :
               intersects(position, constructedRadius, obstacles[k].pos,
                          obstacles[k].radius))
          => velocity' = 0]_vars

\* C7: one ObstacleManager.handleCollisions call responds to at most one
\* obstacle.
C7_OneCorrectionPerCall ==
    lastOp = "obstacleHandleCollisions" => responses <= 1

\* C8 as claimed: after an update the gear is 0 whenever the velocity is < 0.
C8_ReverseGearAfterUpdate ==
    (lastOp = "update" /\ velocity < 0) => currentGear = 0

\* C8 amended: after an update the gear is 0 exactly when the velocity was < 0
\* when that update began (the gear is chosen before the velocity is integrated).
C8_ReverseGearFromPriorVelocity ==
    [][lastOp' = "update" => ((currentGear' = 0) <=> (velocity < 0))]_vars

\* an update that began and ended in reverse left the gear at 0
C8_Witness ==
    /\ lastOp = "update"
    /\ velocity < 0
    /\ currentGear = 0

\* C9: turn(amount) with |velocity| below the minimum turn threshold leaves the
\* rotation and the drift angle unchanged, drifting or not; no turn changes
\* position or velocity.
C9_NoTurnAtStandstill ==
    [][lastOp' = "turn" =>
          /\ position' = position
          /\ velocity' = velocity
          /\ Abs(velocity) < MIN_SPEED_THRESHOLD =>
                 (rotation' = rotation /\ driftAngle' = driftAngle)]_vars

\* a drifting vehicle with a drift angle built up, creeping below the
\* threshold, was turned
C9_Witness ==
    /\ lastOp = "turn"
    /\ velocity # 0
    /\ Abs(velocity) < MIN_SPEED_THRESHOLD
    /\ isDrifting
    /\ driftAngle # 0

\* C10: Vehicle.reset() leaves every member of the vehicle at the value it had
\* right after construction.
C10_ResetRestoresConstruction ==
    lastOp = "reset" =>
        /\ position = constructed.position
        /\ rotation = constructed.rotation
        /\ velocity = constructed.velocity
        /\ acceleration = constructed.acceleration
        /\ isDrifting = constructed.isDrifting
        /\ driftAngle = constructed.driftAngle
        /\ hasNitrous = constructed.hasNitrous
        /\ nitrousActive = constructed.nitrousActive
        /\ nitrousTimeRemaining = constructed.nitrousTimeRemaining
        /\ currentGear = constructed.currentGear
        /\ rpm = constructed.rpm

\* the vehicle was reset after it had collected a powerup
C10_Witness ==
    /\ lastOp = "reset"
    /\ \E i \in 1..Len(powerups) : ~ powerups[i].active

\* the squared x/z distance of the centres of the pair
pairDistanceSquared ==
    (pair.b.pos[1] - pair.a.pos[1]) * (pair.b.pos[1] - pair.a.pos[1])
    + (pair.b.pos[3] - pair.a.pos[3]) * (pair.b.pos[3] - pair.a.pos[3])

\* C11 as claimed: a.check(b) and b.check(a) return the same verdict and the
\* same overlap, and normals that are each other's negation, at every pair of
\* positions.
C11_SymmetricEverywhere ==
    lastOp = "checkCircleCollision" =>
        /\ checks.ab.hit = checks.ba.hit
        /\ checks.ab.hit =>
               /\ checks.ab.overlapDistance = checks.ba.overlapDistance
               /\ checks.ab.normalX = 0 - checks.ba.normalX
               /\ checks.ab.normalZ = 0 - checks.ba.normalZ

\* C11 amended: the verdict and the overlap are the same both ways at every pair
\* of positions; the normals are each other's negation when the centres are
\* further apart than the epsilon, and both are (1, 0) when they are not.
C11_SymmetricApartFromCoincident ==
    lastOp = "checkCircleCollision" =>
        /\ checks.ab.hit = checks.ba.hit
        /\ checks.ab.hit =>
               /\ checks.ab.overlapDistance = checks.ba.overlapDistance
               /\ IF pairDistanceSquared > MIN_DISTANCE_EPSILON * MIN_DISTANCE_EPSILON
                  THEN /\ checks.ab.normalX = 0 - checks.ba.normalX
                       /\ checks.ab.normalZ = 0 - checks.ba.normalZ
                  ELSE /\ checks.ab.normalX = 1000 /\ checks.ba.normalX = 1000
                       /\ checks.ab.normalZ = 0 /\ checks.ba.normalZ = 0

\* two overlapping objects on a diagonal were checked both ways
C11_Witness ==
    /\ lastOp = "checkCircleCollision"
    /\ checks.ab.hit
    /\ checks.ab.normalX > 0
    /\ checks.ab.normalZ < 0
    /\ checks.ba.normalX < 0

\* C12: the check decides on the x/z centre distance d alone: within the
\* epsilon it reports a collision with the radius sum as overlap and the normal
\* (1, 0); above the radius sum no collision; otherwise a collision with overlap
\* radiusSum - d, which is 0 when the circles touch. intersects agrees.
C12_VerdictByPlanarDistance ==
    lastOp = "checkCircleCollision" =>
        LET radiusSum == pair.a.radius + pair.b.radius
            d2 == pairDistanceSquared
        IN  /\ checks.intersectsAB = checks.ab.hit
            /\ IF d2 <= MIN_DISTANCE_EPSILON * MIN_DISTANCE_EPSILON
               THEN /\ checks.ab.hit
                    /\ checks.ab.overlapDistance = radiusSum
                    /\ checks.ab.normalX = 1000
                    /\ checks.ab.normalZ = 0
               ELSE IF d2 > radiusSum * radiusSum
               THEN ~ checks.ab.hit
               ELSE /\ checks.ab.hit
                    /\ \E d \in 0..radiusSum :
                           /\ d * d <= d2
                           /\ d2 < (d + 1) * (d + 1)
                           /\ checks.ab.overlapDistance = radiusSum - d
                    /\ (d2 = radiusSum * radiusSum) => checks.ab.overlapDistance = 0

\* two circles that just touch, at different heights, were checked
C12_Witness ==
    /\ lastOp = "checkCircleCollision"
    /\ pair.a.pos[2] # pair.b.pos[2]
    /\ pairDistanceSquared = (pair.a.radius + pair.b.radius) * (pair.a.radius + pair.b.radius)
    /\ checks.ab.hit
    /\ checks.ab.overlapDistance = 0

\* C13: repeating accelerateForward(); update(dt) from rest with a fixed dt > 0,
\* every update made below the active max-speed ceiling strictly increases the
\* velocity, so the velocity climbs until it reaches the ceiling.
C13_ClimbsToCeiling ==
    [][(/\ lastOp' = "update"
        /\ frameDt > 0
        /\ velocity < (IF nitrousActive' THEN NITROUS_MAX_SPEED ELSE MAX_SPEED))
          => velocity' > velocity]_vars

\* C14: while the drift flag is set and the drift angle is nonzero, an update
\* strictly reduces the magnitude of the drift angle, to the decay factor times
\* what it was, and never flips its sign, whatever dt and the velocity are.
C14_DriftAngleDecays ==
    [][(lastOp' = "update" /\ isDrifting /\ driftAngle # 0) =>
          /\ Abs(driftAngle') < Abs(driftAngle)
          /\ driftAngle' * driftAngle >= 0
          /\ 1000 * Abs(driftAngle') <= DRIFT_DECAY_RATE * Abs(driftAngle)
          /\ 1000 * Abs(driftAngle') > DRIFT_DECAY_RATE * Abs(driftAngle) - 1000]_vars

\* a drifting vehicle in reverse, with a negative drift angle built up by a
\* turn, was updated and still drifts at an angle
C14_Witness ==
    /\ lastOp = "update"
    /\ isDrifting
    /\ velocity < 0
    /\ driftAngle < 0
    /\ driftAngle > 0 - MAX_DRIFT_ANGLE

\* C15: in every reachable state the drift angle is within [-60, +60] degrees.
C15_DriftAngleBounded ==
    /\ driftAngle >= 0 - MAX_DRIFT_ANGLE
    /\ driftAngle <= MAX_DRIFT_ANGLE

\* a turn while drifting has run the drift angle into its negative limit
C15_Witness ==
    /\ lastOp = "turn"
    /\ isDrifting
    /\ driftAngle = 0 - MAX_DRIFT_ANGLE

\* C16: for every entity, from the end of its construction on, the collision
\* radius equals sqrt((width/2)^2 + (length/2)^2) of its size and is never
\* negative.
C16_RadiusFromSize ==
    /\ constructedRadius = updateCollisionRadius(vehicleSize)
    /\ \A k \in 1..Len(obstacles) :
           /\ obstacles[k].radius = updateCollisionRadius(obstacles[k].size)
           /\ obstacles[k].radius >= 0
    /\ \A i \in 1..Len(powerups) :
           /\ powerups[i].radius = updateCollisionRadius(powerups[i].size)
           /\ powerups[i].radius >= 0

\* the distance constraints of the query in progress, on the squares
Satisfies(pos) ==
    /\ \A i \in 1..Len(placement.existingPositions) :
           (pos[1] - placement.existingPositions[i][1])
               * (pos[1] - placement.existingPositions[i][1])
           + (pos[2] - placement.existingPositions[i][2])
               * (pos[2] - placement.existingPositions[i][2])
             >= placement.minDistance * placement.minDistance
    /\ placement.query = "constraints" =>
           pos[1] * pos[1] + pos[2] * pos[2]
             >= placement.minDistanceFromCenter * placement.minDistanceFromCenter

\* C17: both queries terminate after at most maxAttempts + 1 samples: a sample
\* returned within the budget satisfies every distance constraint; with the
\* budget used up exactly one more sample is drawn and returned whatever it is.
C17_TerminatesWithinBudget ==
    /\ [](placement.pc # "idle" =>
             /\ placement.attempts <= placement.maxAttempts
             /\ placement.samples <= placement.maxAttempts + 1
             /\ placement.pc = "loop" =>
                    (placement.samples = placement.attempts /\ ~ placement.fallback)
             /\ (placement.pc = "done" /\ ~ placement.fallback) =>
                    (placement.samples = placement.attempts /\ Satisfies(placement.pos))
             /\ (placement.pc = "done" /\ placement.fallback) =>
                    /\ placement.attempts = placement.maxAttempts
                    /\ placement.samples = placement.maxAttempts + 1)
    /\ (placement.pc = "loop") ~> (placement.pc = "done")

\* a constrained query used up its budget of three and returned a sample that
\* is too close to the centre
C17_Witness ==
    /\ placement.pc = "done"
    /\ placement.query = "constraints"
    /\ placement.fallback
    /\ placement.maxAttempts = MaxAttemptsBudget
    /\ placement.samples = MaxAttemptsBudget + 1
    /\ ~ Satisfies(placement.pos)

\* C18: in every reachable state of the frame loop, |velocity| below the minimum
\* threshold implies that the RPM is the idle RPM.
C18_IdleBelowThreshold ==
    Abs(velocity) < MIN_SPEED_THRESHOLD => rpm = IDLE_RPM

\* C19: after every update the transient acceleration is 0, and an update with
\* no accelerate call since the update before it never increases |velocity| and
\* strictly decreases it when the velocity is nonzero.
C19_OneShotAcceleration ==
    [][lastOp' = "update" =>
          /\ acceleration' = 0
          /\ acceleration = 0 =>
                 /\ Abs(velocity') <= Abs(velocity)
                 /\ velocity # 0 => Abs(velocity') < Abs(velocity)]_vars

\* a vehicle rolling in reverse, already in reverse gear, was updated and still
\* rolls, slower than the reverse limit
C19_Witness ==
    /\ lastOp = "update"
    /\ acceleration = 0
    /\ velocity < 0
    /\ velocity > 0 - MAX_REVERSE_SPEED
    /\ currentGear = 0

\* the positions of the powerups left active
ActiveSpots(ps) == {ps[i].pos : i \in {j \in 1..Len(ps) : ps[j].active}}

\* the outcome of handleCollisions had the collection been in order o
scannedInOrder(o) ==
    scanPowerups([has |-> hasNitrous, ps |-> [i \in 1..Len(powerups) |-> powerups[o[i]]]],
                 1, position, nitrousActive)

\* C20 as claimed: the vehicle's nitrous state and the set of powerups left
\* active after one handleCollisions call are the same for every iteration
\* order of the collection.
C20_OrderIndependent ==
    [][lastOp' = "powerupHandleCollisions" =>
          \A o \in Orders :
              /\ scannedInOrder(o).has = hasNitrous'
              /\ ActiveSpots(scannedInOrder(o).ps) = ActiveSpots(powerups')]_vars

\* C20 amended: the vehicle's nitrous state and the number of powerups left
\* active are the same for every iteration order, and so is the set left active
\* unless the vehicle intersects two or more active powerups with no nitrous
\* held and no boost running: then the one collected is the first in order.
C20_OrderIndependentUpToChoice ==
    [][lastOp' = "powerupHandleCollisions" =>
          \A o \in Orders :
              /\ scannedInOrder(o).has = hasNitrous'
              /\ Cardinality(ActiveSpots(scannedInOrder(o).ps))
                     = Cardinality(ActiveSpots(powerups'))
              /\ Cardinality({i \in 1..Len(powerups) : Eligible(i)}) <= 1 =>
                     ActiveSpots(scannedInOrder(o).ps) = ActiveSpots(powerups')]_vars

\* the vehicle stood on two active powerups of a collection that holds the
\* second spot before the first: the one at the second spot was collected
C20_Witness ==
    /\ lastOp = "powerupHandleCollisions"
    /\ hasNitrous
    /\ \E i, j \in 1..Len(powerups) :
           /\ i < j
           /\ powerups[i].pos = powerupSpot(2)
           /\ ~ powerups[i].active
           /\ powerups[j].pos = powerupSpot(1)
           /\ powerups[j].active
           /\ intersects(position, constructedRadius, powerups[j].pos, powerups[j].radius)

\* C21: whenever the vehicle is not drifting and its drift angle is nonzero, an
\* update() strictly shrinks the magnitude of the drift angle, so after drift
\* exit the angle decays toward 0; and the drift angle of a vehicle that is
\* not drifting never leaves 0, so a vehicle that never drifted has angle 0.
C21_DecaysAfterDriftExit ==
    [][/\ (lastOp' = "update" /\ ~ isDrifting /\ driftAngle # 0) =>
              Abs(driftAngle') < Abs(driftAngle)
       /\ (~ isDrifting /\ driftAngle = 0) => driftAngle' = 0]_vars

\* the gear the speed table gives for a velocity: 0 in reverse, 1 below the
\* threshold, else the smallest gear whose upper boundary speed exceeds |v|
tableGear(v) ==
    IF v < 0 THEN 0
    ELSE IF Abs(v) < MIN_SPEED_THRESHOLD THEN 1
    ELSE IF \E g \in 1..NUM_GEARS : GEAR_SPEEDS[g + 1] > Abs(v)
         THEN CHOOSE g \in 1..NUM_GEARS :
                  /\ GEAR_SPEEDS[g + 1] > Abs(v)
                  /\ \A h \in 1..(g - 1) : ~ (GEAR_SPEEDS[h + 1] > Abs(v))
    ELSE NUM_GEARS

\* C22: the gear chosen by an update() depends only on the velocity at the
\* gear-shift step, not on the previous gear: for a velocity inside the speed
\* table it is the table's gear, so a velocity that crossed several gear bands
\* since the last update yields the table gear after a single update.
C22_GearFromTable ==
    [][(lastOp' = "update" /\ Abs(velocity) < GEAR_SPEEDS[NUM_GEARS + 1]) =>
          currentGear' = tableGear(velocity)]_vars

\* the obstacles the vehicle's circle intersects
Touching == {k \in 1..Len(obstacles) :
                intersects(position, constructedRadius, obstacles[k].pos, obstacles[k].radius)}

\* equal up to the rounding of the fixed-point square root and quotient
Near(a, b) == Abs(a - b) <= 2

\* C23: when ObstacleManager.handleCollisions responds to a hit, it moves the
\* vehicle only in x/z, along the checkCircleCollision normal and away from the
\* obstacle, by the circle overlap distance (the radius sum, along (1,0), when
\* the centres coincide); afterwards the centre distance equals the radius sum,
\* and y and rotation are unchanged.  Stated for a vehicle touching one obstacle.
C23_PushedOutAlongNormal ==
    [][(lastOp' = "obstacleHandleCollisions" /\ responses' > 0) =>
          \A k \in Touching :
              Touching = {k} =>
                  LET hit == checkCircleCollision(position, constructedRadius,
                                                  obstacles[k].pos, obstacles[k].radius)
                      pushX == MulDiv(hit.normalX, hit.overlapDistance, 1000)
                      pushZ == MulDiv(hit.normalZ, hit.overlapDistance, 1000)
                      afterX == position'[1] - obstacles[k].pos[1]
                      afterZ == position'[3] - obstacles[k].pos[3]
                  IN  /\ \/ /\ Near(position'[1], position[1] - pushX)
                            /\ Near(position'[3], position[3] - pushZ)
                         \/ /\ hit.overlapDistance = constructedRadius + obstacles[k].radius
                            /\ Near(position'[1], position[1] + pushX)
                            /\ Near(position'[3], position[3] + pushZ)
                      /\ Near(ISqrt(afterX * afterX + afterZ * afterZ),
                              constructedRadius + obstacles[k].radius)
                      /\ position'[2] = position[2]
                      /\ rotation' = rotation]_vars

\* the calls that read the vehicle's public state for display and sound
Readers == {"vehicleRendererUpdate", "cameraUpdate", "audioUpdate", "uiRender"}

\* C24: in every frame the input layer applies the control intents, then
\* Vehicle.update integrates one timestep, then obstacle collisions are
\* resolved, then powerup pickups are evaluated; every reader of the vehicle's
\* public state (vehicle renderer, camera, audio, HUD) reads it only after both
\* collision passes, so what the frame shows is the state the frame ends in.
C24_ReadersAfterCollisions ==
    [][/\ lastOp' = "update" => lastOp = "inputUpdate"
       /\ lastOp' = "obstacleHandleCollisions" => lastOp = "update"
       /\ lastOp' = "powerupHandleCollisions" =>
              lastOp \in {"obstacleHandleCollisions", "powerupUpdate"}
       /\ lastOp' \in Readers => lastOp \in Readers \cup {"powerupHandleCollisions"}
       /\ lastOp' = "uiRender" =>
              /\ views'.mesh = <<position', rotation'>>
              /\ views'.camera[1] = position']_vars

\* a rotation changed by amount x turnSpeed x rate, modulo 2 pi
rotatedBy(rot, amount, rate) ==
    NormAngle(rot + MulDiv(MulDiv(amount, TURN_SPEED, 1000), rate, 1000))

\* the steering key held: +1 for A (left), -1 for D (right)
steer(held) == IF held.a THEN 1 ELSE 0 - 1

\* C25 as claimed: Vehicle.turn(amount) changes the rotation by amount x
\* turnSpeed x turnRate(|velocity|) x sign(velocity), modulo 2 pi; here for the
\* amounts the input layer passes, steer x dt x turnDirection.
C25_TurnFollowsVelocitySign ==
    [][(lastOp' = "inputUpdate" /\ keys'.a # keys'.d) =>
          rotation' = rotatedBy(rotation,
                                steer(keys') * frameDt * turnDirection(velocity)
                                    * Sign(velocity),
                                calculateTurnRate(velocity))]_vars

\* C25 amended: Vehicle.turn(amount) changes the rotation by amount x turnSpeed
\* x turnRate(|velocity|), modulo 2 pi, the same for a velocity and its
\* negation; the sign of the velocity enters in InputHandler.update, which
\* passes steer x dt x turnDirection, so that with a steering key held the
\* rotation changes by steer x dt x turnSpeed x turnRate x sign(velocity).
C25_SteeringFollowsVelocitySign ==
    [][(lastOp' = "inputUpdate" /\ keys'.a # keys'.d) =>
          /\ rotation' = rotatedBy(rotation, steer(keys') * frameDt * Sign(velocity),
                                   calculateTurnRate(velocity))
          /\ \A amount \in {frameDt, 0 - frameDt} :
                 turnedRotation(rotation, velocity, amount)
                     = turnedRotation(rotation, 0 - velocity, amount)]_vars

\* the first frame of a vehicle reversing at 5 m/s found the left key held: the
\* rotation went down from pi, where going forward it goes up
C25_Witness ==
    /\ lastOp = "inputUpdate"
    /\ keys.a /\ ~ keys.d
    /\ velocity = 0 - 5000
    /\ rotation < initialRotation
    /\ rotation > initialRotation - 1000

\* the powerups the vehicle's circle intersects
Under == {i \in 1..Len(powerups) :
             intersects(position, constructedRadius, powerups[i].pos, powerups[i].radius)}

\* C26: one PowerupManager.handleCollisions call deactivates at most one powerup
\* and grants nitrous at most once (exactly when it deactivates one), however
\* many active powerups the vehicle's circle intersects; the scan does not stop
\* early, so an eligible powerup anywhere in the collection is collected.
C26_OnePickupPerCall ==
    [][lastOp' = "powerupHandleCollisions" =>
          LET deactivated == {i \in 1..Len(powerups) :
                                 powerups[i].active /\ ~ powerups'[i].active}
              activated == {i \in 1..Len(powerups) :
                               ~ powerups[i].active /\ powerups'[i].active}
          IN  /\ Cardinality(deactivated) <= 1
              /\ activated = {}
              /\ (hasNitrous' /\ ~ hasNitrous) <=> (deactivated # {})
              /\ hasNitrous => hasNitrous'
              /\ (\E i \in 1..Len(powerups) : Eligible(i)) => (deactivated # {})]_vars

\* the vehicle stands on two powerups, both active before the call: one of them
\* is inactive now and the vehicle holds its nitrous, no other was touched
C26_Witness ==
    /\ lastOp = "powerupHandleCollisions"
    /\ hasNitrous
    /\ Cardinality(Under) = 2
    /\ Cardinality({i \in Under : ~ powerups[i].active}) = 1
    /\ \A i \in 1..Len(powerups) : i \notin Under => powerups[i].active

\* C27: starting inside the play area, in frames (input, Vehicle.update(dt),
\* ObstacleManager.handleCollisions) that each move the vehicle by less than the
\* wall thickness, the vehicle's centre never ends a frame outside the square
\* of the perimeter walls, wherever along the perimeter it tries to cross.
C27_StaysInsideWalls ==
    (/\ frameDt * NITROUS_MAX_SPEED < WALL_THICKNESS * 1000
     /\ lastOp = "obstacleHandleCollisions")
        => /\ Abs(position[1]) <= halfArea
           /\ Abs(position[3]) <= halfArea

\* C28: when nitrous is granted only by PowerupManager.handleCollisions, in
\* every state reached by frames, activateNitrous, update, Vehicle.reset and
\* PowerupManager.reset in any order, the vehicle never has nitrous available
\* and a boost active at the same time.
C28_NeverHeldAndActive == ~ (hasNitrous /\ nitrousActive)

\* a boost runs and the vehicle stands on an active powerup that
\* handleCollisions has just examined and left alone
C28_Witness ==
    /\ lastOp = "powerupHandleCollisions"
    /\ nitrousActive
    /\ ~ hasNitrous
    /\ \E i \in Under : powerups[i].active

\* C29: after every sequence of pickupNitrous, activateNitrous, reset and
\* update(dt), with any dt including dt <= 0, the boost is active exactly when
\* the remaining time is > 0, and the remaining time is within
\* [0, nitrous duration].
C29_TimerWithinDuration ==
    /\ nitrousActive <=> nitrousTimeRemaining > 0
    /\ nitrousTimeRemaining >= 0
    /\ nitrousTimeRemaining <= NITROUS_DURATION

\* the powerups that are inactive
Inactive(ps) == {i \in 1..Len(ps) : ~ ps[i].active}

\* C30: in the frame loop, a powerup is collected only if no charge was
\* collected before, or the charge collected last was consumed by
\* activateNitrous() and that boost has expired, or the vehicle was reset
\* since; between two PowerupManager.reset calls the inactive powerups never
\* become fewer, and they become more by at most one per frame, in the
\* frame's handleCollisions call.
C30_CollectionsApart ==
    [][/\ (lastOp' = "powerupHandleCollisions" /\ Inactive(powerups') # Inactive(powerups))
              => sinceCollect \in {"none", "expired", "reset"}
       /\ lastOp' \notin {"powerupReset", "keyReset"}
              => Inactive(powerups) \subseteq Inactive(powerups')
       /\ Cardinality(Inactive(powerups') \ Inactive(powerups))
              <= (IF lastOp' = "powerupHandleCollisions" THEN 1 ELSE 0)]_vars

\* a second powerup has been collected in the loop since the powerups were last
\* reset, after the boost from the first ran out
C30_Witness ==
    /\ lastOp = "powerupHandleCollisions"
    /\ sinceCollect = "collected"
    /\ hasNitrous
    /\ Cardinality(Inactive(powerups)) = 2

============================================================================
